---- MODULE Spec2Model ----
(***************************************************************************)
(* stochastic-minigrid: the WorldObj codec (encode / decode), the           *)
(* Teleporter variant and its procedural render, as a state machine of a   *)
(* single-threaded host that makes one call at a time on the object it     *)
(* holds.  Python exceptions are modelled as "raise" outcomes.  Float      *)
(* pixel-centre arithmetic is modelled exactly over the integers (scaled   *)
(* by 100 for the radii and by twice the tile side for the centres).       *)
(***************************************************************************)
EXTENDS Integers, Sequences, FiniteSets, TLC

\* ------------------------------------------------------------------ bounds
\* largest tile side (height and width range over 1..MaxTile)
MaxTile == 8
\* decode's state argument ranges over 0..MaxState
MaxState == 3
\* decode's type_idx argument ranges over 0..MaxTypeIdx (11 is the last valid)
MaxTypeIdx == 12
\* decode's color_idx argument ranges over 0..MaxColorIdx (5 is the last valid)
MaxColorIdx == 6
\* starting buffers handed to render are the patterns 0..MaxStart
MaxStart == 1

\* ------------------------------------------------------- python outcomes
None == [cls |-> "None"]

Ok(v) == [kind |-> "ok", val |-> v]

Raise(e) == [kind |-> "raise", exc |-> e]

\* no call in flight
Idle == [op |-> "idle"]

\* --------------------------------------------------------------- tables
OBJECT_TO_IDX ==
    [unseen |-> 0, empty |-> 1, wall |-> 2, floor |-> 3, door |-> 4,
     key |-> 5, ball |-> 6, box |-> 7, goal |-> 8, lava |-> 9,
     agent |-> 10, teleporter |-> 11]

IDX_TO_OBJECT ==
    [i \in {OBJECT_TO_IDX[n] : n \in DOMAIN OBJECT_TO_IDX} |->
        CHOOSE n \in DOMAIN OBJECT_TO_IDX : OBJECT_TO_IDX[n] = i]

\* minigrid.core.constants, as imported
COLOR_TO_IDX ==
    [red |-> 0, green |-> 1, blue |-> 2, purple |-> 3, yellow |-> 4, grey |-> 5]

IDX_TO_COLOR ==
    [i \in {COLOR_TO_IDX[n] : n \in DOMAIN COLOR_TO_IDX} |->
        CHOOSE n \in DOMAIN COLOR_TO_IDX : COLOR_TO_IDX[n] = i]

COLORS ==
    [red |-> <<255, 0, 0>>, green |-> <<0, 255, 0>>, blue |-> <<0, 0, 255>>,
     purple |-> <<112, 39, 195>>, yellow |-> <<255, 255, 0>>,
     grey |-> <<100, 100, 100>>]

\* ------------------------------------------------------------- WorldObj
\* WorldObj.__init__ without the colour assertion (mutant)
WorldObj_init_NoColourCheck(type, color) ==
    IF type \notin DOMAIN OBJECT_TO_IDX THEN Raise("AssertionError")
    ELSE Ok([type |-> type, color |-> color, contains |-> None,
             init_pos |-> None, cur_pos |-> None])

\* WorldObj.__init__(self, type, color): the fields it sets, or the failed assert
WorldObj_init(type, color) ==
    IF type \notin DOMAIN OBJECT_TO_IDX THEN Raise("AssertionError")
    ELSE IF color \notin DOMAIN COLOR_TO_IDX THEN Raise("AssertionError")
    ELSE Ok([type |-> type, color |-> color, contains |-> None,
             init_pos |-> None, cur_pos |-> None])

\* an instance of class cls with no fields of its own, after super().__init__
Instance(cls, base) ==
    IF base.kind = "raise" THEN base
    ELSE Ok([cls |-> cls, type |-> base.val.type, color |-> base.val.color,
             contains |-> base.val.contains, init_pos |-> base.val.init_pos,
             cur_pos |-> base.val.cur_pos])

\* WorldObj(type, color), the base class constructed directly
WorldObj(type, color) == Instance("WorldObj", WorldObj_init(type, color))

can_overlap(self) == FALSE

can_pickup(self) == FALSE

can_contain(self) == FALSE

see_behind(self) == TRUE

\* a toggle that acts on the environment and reports it (mutant)
toggle_Acting(self, env, pos) ==
    [self |-> self, env |-> [env EXCEPT ![pos] = "empty"], ret |-> TRUE]

\* toggle(self, env, pos): the return value, and self and env after the call
toggle(self, env, pos) == [self |-> self, env |-> env, ret |-> FALSE]

encode(self) == <<OBJECT_TO_IDX[self.type], COLOR_TO_IDX[self.color], 0>>

\* -------------------------------------------------------------- Teleporter
Teleporter_init(active, active_colour, inactive_colour) ==
    LET colour == IF active THEN active_colour ELSE inactive_colour
        base == WorldObj_init("teleporter", colour)
    IN  IF base.kind = "raise" THEN base
        ELSE Ok([cls |-> "Teleporter",
                 type |-> base.val.type, color |-> base.val.color,
                 contains |-> base.val.contains, init_pos |-> base.val.init_pos,
                 cur_pos |-> base.val.cur_pos,
                 active_colour |-> active_colour,
                 inactive_colour |-> inactive_colour,
                 is_active |-> active])

\* a default Teleporter that starts inactive (mutant)
Teleporter_default_Inactive == Teleporter_init(FALSE, "blue", "grey")

\* Teleporter() as decode calls it: active=True, "blue", "grey"
Teleporter_default == Teleporter_init(TRUE, "blue", "grey")

\* ------------------------------------------- minigrid.core.world_object
Wall(color) == Instance("Wall", WorldObj_init("wall", color))

Floor(color) == Instance("Floor", WorldObj_init("floor", color))

Ball(color) == Instance("Ball", WorldObj_init("ball", color))

Key(color) == Instance("Key", WorldObj_init("key", color))

Box(color) == Instance("Box", WorldObj_init("box", color))

Door(color, is_open, is_locked) ==
    LET base == WorldObj_init("door", color)
    IN  IF base.kind = "raise" THEN base
        ELSE Ok([cls |-> "Door",
                 type |-> base.val.type, color |-> base.val.color,
                 contains |-> base.val.contains, init_pos |-> base.val.init_pos,
                 cur_pos |-> base.val.cur_pos,
                 is_open |-> is_open, is_locked |-> is_locked])

Goal == Instance("Goal", WorldObj_init("goal", "green"))

Lava == Instance("Lava", WorldObj_init("lava", "red"))

\* Door.encode of the host framework: 0 open, 2 locked, 1 closed
Door_encode(self) ==
    <<OBJECT_TO_IDX[self.type], COLOR_TO_IDX[self.color],
      IF self.is_open THEN 0 ELSE IF self.is_locked THEN 2 ELSE 1>>

\* obj.encode(), dispatched on the instance's class
EncodeOf(o) == IF o.cls = "Door" THEN Door_encode(o) ELSE encode(o)

\* ---------------------------------------------------------------- decode
\* a decode that reserves only "empty" (mutant)
decode_reserved_EmptyOnly(obj_type) == obj_type = "empty"

\* the reserved tags, for which decode returns None before constructing
decode_reserved(obj_type) == obj_type = "empty" \/ obj_type = "unseen"

\* an outcome of decode, with the number of constructor calls it made
Made(r, n) ==
    IF r.kind = "ok" THEN [kind |-> "ok", val |-> r.val, made |-> n]
    ELSE [kind |-> "raise", exc |-> r.exc, made |-> n]

\* the if / elif chain of decode, from "wall" to the final assert False
decode_construct(obj_type, color, is_open, is_locked) ==
    CASE obj_type = "wall" -> Made(Wall(color), 1)
      [] obj_type = "floor" -> Made(Floor(color), 1)
      [] obj_type = "ball" -> Made(Ball(color), 1)
      [] obj_type = "key" -> Made(Key(color), 1)
      [] obj_type = "box" -> Made(Box(color), 1)
      [] obj_type = "door" -> Made(Door(color, is_open, is_locked), 1)
      [] obj_type = "goal" -> Made(Goal, 1)
      [] obj_type = "lava" -> Made(Lava, 1)
      [] obj_type = "teleporter" -> Made(Teleporter_default, 1)
      [] OTHER -> Made(Raise("AssertionError"), 0)

\* WorldObj.decode(type_idx, color_idx, state): [kind, val | exc, made]
decode(type_idx, color_idx, state) ==
    IF type_idx \notin DOMAIN IDX_TO_OBJECT THEN Made(Raise("KeyError"), 0)
    ELSE IF color_idx \notin DOMAIN IDX_TO_COLOR THEN Made(Raise("KeyError"), 0)
    ELSE LET obj_type == IDX_TO_OBJECT[type_idx]
             color == IDX_TO_COLOR[color_idx]
         IN  IF decode_reserved(obj_type) THEN Made(Ok(None), 0)
             ELSE decode_construct(obj_type, color, state = 0, state = 2)

\* ------------------------------------------------------------- rendering
\* a tile bitmap: h rows of w pixels, px[<<y, x>>] an RGB triple of bytes
NoImg == [h |-> 0, w |-> 0, px |-> <<>>]

Pixels(h, w) == (0 .. h - 1) \X (0 .. w - 1)

BLACK == <<0, 0, 0>>

\* an inactive branch that forgets the 0.5 factor (mutant)
Half_Full(colour) == colour

\* 0.5 * np.array(colour) stored into a uint8 buffer: halved, fraction dropped
Half(colour) == <<colour[1] \div 2, colour[2] \div 2, colour[3] \div 2>>

\* point_in_circle(cx, cy, r)(x, y): cx, cy, r in hundredths, x = xf[1] / xf[2],
\* y = yf[1] / yf[2]; (x - cx)^2 + (y - cy)^2 <= r^2 cleared of denominators
point_in_circle(cx, cy, r, xf, yf) ==
    LET dx == (100 * xf[1] - cx * xf[2]) * yf[2]
        dy == (100 * yf[1] - cy * yf[2]) * xf[2]
        rr == r * xf[2] * yf[2]
    IN  dx * dx + dy * dy <= rr * rr

\* fill_coords(img, point_in_circle(cx, cy, r), color): paints the pixels whose
\* centre ((x + 0.5) / w, (y + 0.5) / h) satisfies the predicate, keeps the rest
fill_coords(img, cx, cy, r, color) ==
    [img EXCEPT !.px =
        [p \in Pixels(img.h, img.w) |->
            IF point_in_circle(cx, cy, r, <<2 * p[2] + 1, 2 * img.w>>,
                               <<2 * p[1] + 1, 2 * img.h>>)
            THEN color ELSE img.px[p]]]

\* the five fills of either branch of Teleporter.render, in the code's order
Teleporter_fills(img, colour) ==
    LET a == fill_coords(img, 50, 50, 48, colour)
        b == fill_coords(a, 50, 50, 40, BLACK)
        c == fill_coords(b, 50, 50, 20, colour)
        d == fill_coords(c, 50, 50, 16, BLACK)
    IN  fill_coords(d, 50, 50, 12, colour)

\* Teleporter.render(self, img): the outcome and the caller's buffer afterwards
Teleporter_render(self, img) ==
    IF self.active_colour \notin DOMAIN COLORS
       \/ self.inactive_colour \notin DOMAIN COLORS
    THEN [img |-> img, out |-> Raise("KeyError")]
    ELSE IF self.is_active
         THEN [img |-> Teleporter_fills(img, COLORS[self.active_colour]),
               out |-> Ok(None)]
         ELSE [img |-> Teleporter_fills(img, Half(COLORS[self.inactive_colour])),
               out |-> Ok(None)]

\* ------------------------------------------------------ the host's inputs
\* colour arguments a caller may pass: the palette and one name outside it
ColourArgs == DOMAIN COLOR_TO_IDX \cup {"magenta"}

\* type arguments a caller may pass: the type set and one name outside it
TypeArgs == DOMAIN OBJECT_TO_IDX \cup {"portal"}

\* the starting buffer of pattern k: zeros for k = 0, a grey gradient otherwise
StartBuffer(h, w, k) ==
    [h |-> h, w |-> w,
     px |-> [p \in Pixels(h, w) |->
                LET v == ((p[1] + p[2] + 1) * k * 85) % 256 IN <<v, v, v>>]]

\* the environments and positions handed to toggle: two cells of a grid
Positions == {<<0, 0>>, <<1, 0>>}

Envs == [Positions -> {"empty", "teleporter"}]

\* classes of this repository (the other variants' methods are the host's)
OwnClasses == {"WorldObj", "Teleporter"}

\* ------------------------------------------------------------------ state
VARIABLES
    obj,    \* the object the host holds, or None
    call,   \* the call in flight ([op |-> "idle"] between calls) and its arguments
    ret,    \* the outcome of the call in flight
    img0,   \* the buffer handed to render, as it was before the call
    img     \* the same buffer after the call

vars == <<obj, call, ret, img0, img>>

Init ==
    /\ obj = None
    /\ call = Idle
    /\ ret = Ok(None)
    /\ img0 = NoImg
    /\ img = NoImg

\* a constructor call: the host holds the new instance, or nothing if it raised
Constructed(c, r) ==
    /\ call = Idle
    /\ call' = c
    /\ ret' = r
    /\ obj' = IF r.kind = "ok" THEN r.val ELSE None
    /\ UNCHANGED <<img0, img>>

ConstructTeleporter ==
    \E active \in BOOLEAN, ac \in ColourArgs, ic \in ColourArgs :
        Constructed([op |-> "Teleporter", active |-> active, active_colour |-> ac,
                     inactive_colour |-> ic],
                    Teleporter_init(active, ac, ic))

ConstructWorldObj ==
    \E t \in TypeArgs, c \in ColourArgs :
        Constructed([op |-> "WorldObj", type |-> t, color |-> c], WorldObj(t, c))

ConstructVariant ==
    \E c \in ColourArgs :
        \/ \E v \in {"Wall", "Floor", "Ball", "Key", "Box"} :
              Constructed([op |-> v, color |-> c],
                          CASE v = "Wall" -> Wall(c) [] v = "Floor" -> Floor(c)
                            [] v = "Ball" -> Ball(c) [] v = "Key" -> Key(c)
                            [] OTHER -> Box(c))
        \/ \E o \in BOOLEAN, l \in BOOLEAN :
              Constructed([op |-> "Door", color |-> c, is_open |-> o, is_locked |-> l],
                          Door(c, o, l))
        \/ Constructed([op |-> "Goal"], Goal)
        \/ Constructed([op |-> "Lava"], Lava)

\* the host flips the flag in place: a plain attribute assignment
HostFlip ==
    /\ call = Idle
    /\ obj.cls = "Teleporter"
    /\ obj' = [obj EXCEPT !.is_active = ~@]
    /\ UNCHANGED <<call, ret, img0, img>>

Encode ==
    /\ call = Idle
    /\ obj # None
    /\ call' = [op |-> "encode"]
    /\ ret' = Ok(EncodeOf(obj))
    /\ UNCHANGED <<obj, img0, img>>

\* the host loads a cell from a triple: it holds what decode returned
Decoded(c, r) ==
    /\ call' = c
    /\ ret' = r
    /\ obj' = IF r.kind = "ok" THEN r.val ELSE obj
    /\ UNCHANGED <<img0, img>>

Decode ==
    /\ call = Idle
    /\ \E t \in 0 .. MaxTypeIdx, c \in 0 .. MaxColorIdx, s \in 0 .. MaxState :
          Decoded([op |-> "decode", type_idx |-> t, color_idx |-> c, state |-> s],
                  decode(t, c, s))

\* the host saves the cell and loads it again: decode(*obj.encode())
RoundTrip ==
    /\ call = Idle
    /\ obj # None
    /\ LET e == EncodeOf(obj)
       IN  Decoded([op |-> "roundtrip", src |-> obj], decode(e[1], e[2], e[3]))

\* the host renders the Teleporter it holds into a tile buffer
Render ==
    /\ call = Idle
    /\ obj.cls = "Teleporter"
    /\ \E h \in 1 .. MaxTile, w \in 1 .. MaxTile, k \in 0 .. MaxStart :
          LET r == Teleporter_render(obj, StartBuffer(h, w, k))
          IN  /\ call' = [op |-> "render"]
              /\ ret' = r.out
              /\ img0' = StartBuffer(h, w, k)
              /\ img' = r.img
              /\ UNCHANGED obj

Query ==
    /\ call = Idle
    /\ obj.cls \in OwnClasses
    /\ \/ call' = [op |-> "can_overlap"] /\ ret' = Ok(can_overlap(obj))
       \/ call' = [op |-> "can_pickup"] /\ ret' = Ok(can_pickup(obj))
       \/ call' = [op |-> "can_contain"] /\ ret' = Ok(can_contain(obj))
       \/ call' = [op |-> "see_behind"] /\ ret' = Ok(see_behind(obj))
    /\ UNCHANGED <<obj, img0, img>>

Toggle ==
    /\ call = Idle
    /\ obj.cls \in OwnClasses
    /\ \E env \in Envs, pos \in Positions :
          LET r == toggle(obj, env, pos)
          IN  /\ call' = [op |-> "toggle", env |-> env, pos |-> pos]
              /\ ret' = [kind |-> "ok", val |-> r.ret, env |-> r.env]
              /\ obj' = r.self
    /\ UNCHANGED <<img0, img>>

\* the call in flight returns: the host drops its outcome and the buffer
Return ==
    /\ call # Idle
    /\ call' = Idle
    /\ ret' = Ok(None)
    /\ img0' = NoImg
    /\ img' = NoImg
    /\ UNCHANGED obj

Next ==
    \/ ConstructTeleporter
    \/ ConstructWorldObj
    \/ ConstructVariant
    \/ HostFlip
    \/ Encode
    \/ Decode
    \/ RoundTrip
    \/ Render
    \/ Query
    \/ Toggle
    \/ Return

Spec == Init /\ [][Next]_vars

\* ================================================================ claims
\* the palette, and the tags decode reserves
Palette == DOMAIN COLOR_TO_IDX

ReservedIdx == {OBJECT_TO_IDX["empty"], OBJECT_TO_IDX["unseen"]}

\* the distance d of pixel p's centre from (0.5, 0.5) is at most r / 100
DistLe(p, h, w, r) ==
    10000 * ((2 * p[2] + 1 - w) * (2 * p[2] + 1 - w) * h * h
             + (2 * p[1] + 1 - h) * (2 * p[1] + 1 - h) * w * w)
        <= 4 * w * w * h * h * r * r

\* the pixel's centre lies in one of the three coloured bands
InColouredBand(p, h, w) ==
    \/ DistLe(p, h, w, 12)
    \/ ~DistLe(p, h, w, 16) /\ DistLe(p, h, w, 20)
    \/ ~DistLe(p, h, w, 40) /\ DistLe(p, h, w, 48)

\* the value the ring structure gives pixel p: colour, black, or its start value
Ring(p, h, w, colour, start) ==
    IF DistLe(p, h, w, 12) THEN colour
    ELSE IF DistLe(p, h, w, 16) THEN BLACK
    ELSE IF DistLe(p, h, w, 20) THEN colour
    ELSE IF DistLe(p, h, w, 40) THEN BLACK
    ELSE IF DistLe(p, h, w, 48) THEN colour
    ELSE start

\* the buffer after the call is the ring structure in `colour` over the start buffer
RingsPainted(colour) ==
    /\ img.h = img0.h /\ img.w = img0.w
    /\ \A p \in Pixels(img0.h, img0.w) :
          img.px[p] = Ring(p, img0.h, img0.w, colour, img0.px[p])

\* C1: round trip: decode of the encoding of any object of a decodable variant
\* (a Teleporter with any flag and colour pair included) yields an object of the
\* same variant whose color is the original's color.
C1_RoundTrip ==
    (call.op = "roundtrip" /\ call.src.cls # "WorldObj") =>
        /\ ret.kind = "ok"
        /\ ret.val # None
        /\ ret.val.type = call.src.type
        /\ ret.val.color = call.src.color

\* C2: for every type index of OBJECT_TO_IDX other than empty and unseen, every
\* valid colour index and every state, decode returns a fresh instance of the
\* variant of that index with the colour of the colour index, and it fails only
\* when the type index is outside OBJECT_TO_IDX.
C2_DecodeTotal ==
    (call.op = "decode" /\ call.color_idx \in DOMAIN IDX_TO_COLOR) =>
        /\ (call.type_idx \in DOMAIN IDX_TO_OBJECT \ ReservedIdx) =>
              /\ ret.kind = "ok"
              /\ ret.made = 1
              /\ ret.val.type = IDX_TO_OBJECT[call.type_idx]
              /\ ret.val.color = IDX_TO_COLOR[call.color_idx]
        /\ ret.kind = "raise" => call.type_idx \notin DOMAIN IDX_TO_OBJECT

\* C3: Teleporter colour invariant: after construction and after any number of
\* in-place flips of is_active, color is active_colour when is_active and
\* inactive_colour otherwise.
C3_ColourInvariant ==
    obj.cls = "Teleporter" =>
        obj.color = IF obj.is_active THEN obj.active_colour ELSE obj.inactive_colour

\* C4: decode with the type index of empty or unseen, any valid colour index and
\* any state returns None and constructs no object.
C4_ReservedDecodeNone ==
    (/\ call.op = "decode"
     /\ call.type_idx \in ReservedIdx
     /\ call.color_idx \in DOMAIN IDX_TO_COLOR) =>
        /\ ret.kind = "ok"
        /\ ret.val = None
        /\ ret.made = 0
        /\ obj = None

C4_Witness ==
    /\ call.op = "decode"
    /\ call.type_idx = OBJECT_TO_IDX["unseen"]
    /\ call.color_idx = COLOR_TO_IDX["grey"]
    /\ call.state = 2
    /\ ret.kind = "ok"
    /\ ret.val = None

\* C5: render and the capability queries complete without raising on every
\* Teleporter whose construction succeeded, in either value of is_active.
C5_Total ==
    (/\ obj.cls = "Teleporter"
     /\ call.op \in {"can_overlap", "can_pickup", "can_contain", "see_behind",
                     "toggle", "render"}) =>
        ret.kind = "ok"

\* C6: constructing a WorldObj, directly or through the Teleporter constructor,
\* with a type outside OBJECT_TO_IDX or a colour outside COLOR_TO_IDX raises and
\* yields no instance; every object the host holds has its type in OBJECT_TO_IDX
\* and its color in COLOR_TO_IDX.
C6_ConstructionValidation ==
    /\ obj # None =>
          obj.type \in DOMAIN OBJECT_TO_IDX /\ obj.color \in DOMAIN COLOR_TO_IDX
    /\ (call.op = "WorldObj"
        /\ (call.type \notin DOMAIN OBJECT_TO_IDX
            \/ call.color \notin DOMAIN COLOR_TO_IDX)) =>
          ret.kind = "raise" /\ obj = None
    /\ (call.op = "Teleporter"
        /\ (IF call.active THEN call.active_colour ELSE call.inactive_colour)
              \notin DOMAIN COLOR_TO_IDX) =>
          ret.kind = "raise" /\ obj = None

C6_Witness ==
    /\ call.op = "Teleporter"
    /\ ~call.active
    /\ call.active_colour = "blue"
    /\ call.inactive_colour = "magenta"
    /\ ret.kind = "raise"
    /\ obj = None

\* C7: after render of an active Teleporter on any starting bitmap every pixel is
\* fixed by the distance d of its centre from (0.5, 0.5): d <= 0.12 active_colour,
\* <= 0.16 black, <= 0.20 active_colour, <= 0.40 black, <= 0.48 active_colour,
\* beyond 0.48 its starting value.
C7_Rings ==
    (/\ call.op = "render"
     /\ obj.cls = "Teleporter"
     /\ obj.is_active
     /\ obj.active_colour \in Palette) =>
        RingsPainted(COLORS[obj.active_colour])

\* C7, for the Teleporters whose two colours are both palette colours: the ring
\* structure of the active render holds
C7_RingsInPalette ==
    (/\ call.op = "render"
     /\ obj.cls = "Teleporter"
     /\ obj.is_active
     /\ obj.active_colour \in Palette
     /\ obj.inactive_colour \in Palette) =>
        ret.kind = "ok" /\ RingsPainted(COLORS[obj.active_colour])

\* the render of the same Teleporter with its flag flipped, from the same start
OtherRender == Teleporter_render([obj EXCEPT !.is_active = ~@], img0).img

\* half the brightness of a colour in a byte buffer: per channel the byte v with
\* 2v <= channel < 2v + 2
HalfBrightness(colour) ==
    [i \in 1 .. 3 |-> CHOOSE v \in 0 .. 255 : 2 * v <= colour[i] /\ colour[i] < 2 * v + 2]

\* the inactive render paints the ring structure in the halved inactive_colour
InactiveDimmed ==
    ~obj.is_active => RingsPainted(HalfBrightness(COLORS[obj.inactive_colour]))

\* C8 (as stated): for every pair of palette colours, every tile size and every
\* starting buffer the inactive render paints the same disks with the coloured
\* fills at half the brightness of inactive_colour, and the buffer differs from
\* the active render's from the same starting buffer.
C8_AlwaysDiffers ==
    (/\ call.op = "render"
     /\ obj.cls = "Teleporter"
     /\ obj.active_colour \in Palette
     /\ obj.inactive_colour \in Palette) =>
        /\ InactiveDimmed
        /\ img # OtherRender

\* C8 (amended): as above, the two buffers differing whenever the tile has at
\* least one pixel whose centre lies in a coloured band.
C8_DiffersWhereColoured ==
    (/\ call.op = "render"
     /\ obj.cls = "Teleporter"
     /\ obj.active_colour \in Palette
     /\ obj.inactive_colour \in Palette) =>
        /\ ret.kind = "ok"
        /\ InactiveDimmed
        /\ (\E p \in Pixels(img0.h, img0.w) : InColouredBand(p, img0.h, img0.w))
              => img # OtherRender

C8_Witness ==
    /\ call.op = "render"
    /\ obj.cls = "Teleporter"
    /\ ~obj.is_active
    /\ obj.active_colour = "purple"
    /\ obj.inactive_colour = "purple"
    /\ img.h = 7 /\ img.w = 7
    /\ img.px[<<3, 3>>] = <<56, 19, 97>>
    /\ img.px[<<3, 4>>] = BLACK
    /\ img # OtherRender

\* C9: on a Teleporter, active or inactive, can_overlap, can_pickup and
\* can_contain return false, see_behind returns true, and toggle returns false
\* and changes neither the Teleporter nor the environment.
C9_Capabilities ==
    [][obj.cls = "Teleporter" =>
          /\ call'.op = "can_overlap" => ret' = Ok(FALSE)
          /\ call'.op = "can_pickup" => ret' = Ok(FALSE)
          /\ call'.op = "can_contain" => ret' = Ok(FALSE)
          /\ call'.op = "see_behind" => ret' = Ok(TRUE)
          /\ call'.op = "toggle" =>
                /\ ret'.val = FALSE
                /\ ret'.env = call'.env
                /\ obj' = obj]_vars

C9_Witness ==
    /\ obj.cls = "Teleporter"
    /\ ~obj.is_active
    /\ call.op = "toggle"
    /\ call.env[call.pos] = "teleporter"
    /\ ret.val = FALSE
    /\ ret.env = call.env

====
